---- MODULE Spec2Model ----
(***************************************************************************)
(* db-plumbing-mongo: the Store facade (find, findAll, update, remove,     *)
(* removeAll, bulk), the IndexMap registry and the typed-patch to mongo    *)
(* update translation of src/store.js, over a model of the mongodb         *)
(* collection the Store talks to.                                          *)
(*                                                                         *)
(* JavaScript objects (entities, documents, patches, mongo commands) are   *)
(* functions from property names to values; a property that is absent      *)
(* reads as undefined.  A collection is the set of its documents, every    *)
(* document carrying a unique "_id".                                       *)
(*                                                                         *)
(* The collection behaves as the mongodb driver the store is written for:  *)
(* updateOne with a document without $-operators replaces the matched      *)
(* document (Store.update relies on it), insertMany gives a document       *)
(* without _id a fresh ObjectId, and a call that fails leaves the          *)
(* collection as it was.  The store's type is the class Simple of the      *)
(* tests.  The caller is one thread of control that invokes an operation   *)
(* when the previous one has settled.                                      *)
(*                                                                         *)
(* Spec is the single-call operations on a store; SpecBulk is one bulk     *)
(* call and the run of its promise chain, call by call; SpecHandle is a    *)
(* store of Client.getStore, whose collection is a promise still pending,  *)
(* with operations invoked without waiting for one another; SpecDiff is    *)
(* Store.diffToMongo called on its own with the diffs over three property  *)
(* names; SpecIndexMap is a new IndexMap that is told about indexes and    *)
(* asked for criteria.                                                     *)
(***************************************************************************)
EXTENDS Integers, Sequences, FiniteSets, TLC

\* ---------------------------------------------------------------- bounds
MaxKey == 3
MaxPatchLen == 3
MaxInvoked == 3
\* addSimpleField calls made on one IndexMap
MaxRegistered == 2

\* ------------------------------------------------------------ value sets
\* application keys (uid) of the entities
Keys == 1..MaxKey
\* first ObjectId the driver generates for a document inserted without _id
OidBase == 100
\* values of the text fields a and b
Vals == {"hello", "pizza"}
\* names of the index functions handed to the IndexMap (index.name)
IndexNames == {"byA", "byB", "byC"}
\* fields an index can be bound to
IndexFields == {"a", "b"}

\* class Simple of the tests: constructor(uid, a, b)
SimpleFields == {"uid", "a", "b"}
Simple(uid, a, b) == [uid |-> uid, a |-> a, b |-> b]
Entities == {Simple(k, a, b) : k \in Keys, a \in Vals, b \in Vals}

\* Simple.fromJSON({uid,a,b}): keeps uid, a and b of the record and drops
\* every other property (a property the record lacks stays undefined)
fromJSON(json) == [f \in (DOMAIN json) \cap SimpleFields |-> json[f]]

\* DEFAULT_OPTIONS
key(value) == value.uid
value(entry) == entry
\* faulty variant of entry: the data is not copied into the document
entryKeyOnly(_id, data) == ("_id" :> _id)
entry(_id, data) == [f \in (DOMAIN data) \cup {"_id"} |->
                        IF f = "_id" THEN _id ELSE data[f]]

\* ----------------------------------------------------- typed-patch values
Rpl(data) == [op |-> "Rpl", data |-> data]
Ins(data) == [op |-> "Ins", data |-> data]
Mrg(data) == [op |-> "Mrg", data |-> data]
DEL == [op |-> "DEL"]

\* the per-entity diffs (the data of a top-level Mrg) the model draws from
DiffB == ("b" :> Rpl("pizza"))
DiffDelA == ("a" :> DEL)
DiffEmpty == << >>
DiffNested == ("g" :> Mrg(("h" :> Rpl("pizza"))))
DiffIns == ("b" :> Ins("pizza"))
Diffs == {DiffB, DiffDelA, DiffEmpty, DiffNested, DiffIns}

\* the operations a BatchPatch can map key k to
OpsFor(k) == {Mrg(d) : d \in Diffs}
             \cup {Ins(Simple(k, "hello", "hello")), DEL, Rpl(Simple(k, "pizza", "pizza"))}

\* ------------------------------------------------------------- failures
\* a synchronous throw or a rejected promise, carrying the error's kind
Thrown(e) == ("throw" :> e)
IsThrown(x) == DOMAIN x = {"throw"}
\* new Error('mongo does not understand index ...')
UnsupportedIndex == "mongo does not understand index"
\* new Error('Unkown diff operation ...')
UnsupportedPatchShape == "Unkown diff operation"
\* the TypeError of reading .data of undefined
TypeError == "TypeError"
\* new DoesNotExist(_id)
DoesNotExist == "DoesNotExist"
\* a rejection coming from the mongodb driver (network, server error)
BackendFailure == "BackendFailure"

\* ------------------------------------------------------------- IndexMap
\* an index function is known to the IndexMap by its name only
Index(name) == [name |-> name]
Indexes == {Index(n) : n \in IndexNames}

\* faulty variant of addSimpleField: a name that is bound keeps its binding
addSimpleFieldOnce(maps, index, name) ==
    [n \in (DOMAIN maps) \cup {index.name} |->
        IF n \in DOMAIN maps THEN maps[n] ELSE name]

\* IndexMap.addSimpleField: maps[index.name] = value => ({[name]: value})
addSimpleField(maps, index, name) ==
    [n \in (DOMAIN maps) \cup {index.name} |->
        IF n = index.name THEN name ELSE maps[n]]

\* faulty variant of toMongoCriteria: the criteria do not carry the field
toMongoCriteriaAny(maps, index, v) ==
    IF index.name \notin DOMAIN maps
    THEN Thrown(UnsupportedIndex)
    ELSE << >>

\* faulty variant of toMongoCriteria: an index the map does not know gives
\* empty criteria instead of a throw
toMongoCriteriaLenient(maps, index, v) ==
    IF index.name \notin DOMAIN maps
    THEN << >>
    ELSE (maps[index.name] :> v)

\* faulty variant of toMongoCriteria: the criteria carry the name of the
\* index, not the field it was registered with
toMongoCriteriaByName(maps, index, v) ==
    IF index.name \notin DOMAIN maps
    THEN Thrown(UnsupportedIndex)
    ELSE (index.name :> v)

\* IndexMap.toMongoCriteria
toMongoCriteria(maps, index, v) ==
    IF index.name \notin DOMAIN maps
    THEN Thrown(UnsupportedIndex)
    ELSE (maps[index.name] :> v)

\* ------------------------------------------------------- Diff translator
\* String(property) of an operation object used as a property key
toString(property) == "[object Object]"

\* faulty variant of _diffToMongo: a DEL property is written to $set
_diffToMongoSetOnly(diff, mongo, context) ==
    IF \E name \in DOMAIN diff :
          diff[name].op = "Mrg" /\ toString(diff[name]) \notin DOMAIN diff
    THEN Thrown(TypeError)
    ELSE LET sets == {name \in DOMAIN diff : diff[name].op \in {"Rpl", "DEL"}}
         IN  ("$set" :> [p \in (DOMAIN mongo["$set"]) \cup {context \o name : name \in sets} |->
                            IF \E name \in sets : p = context \o name
                            THEN LET name == CHOOSE name \in sets : p = context \o name
                                 IN  IF diff[name].op = "Rpl" THEN diff[name].data ELSE ""
                            ELSE mongo["$set"][p]]
              @@
              "$unset" :> mongo["$unset"])

\* Store._diffToMongo: one pass over the properties of diff.  Rpl adds to
\* $set, DEL adds to $unset; for a Mrg property the code evaluates
\* diff[property].data with the operation object itself as the key, which
\* names no property of diff, so reading .data of undefined throws.  Any
\* other variant is skipped.
_diffToMongo(diff, mongo, context) ==
    IF \E name \in DOMAIN diff :
          diff[name].op = "Mrg" /\ toString(diff[name]) \notin DOMAIN diff
    THEN Thrown(TypeError)
    ELSE LET sets == {name \in DOMAIN diff : diff[name].op = "Rpl"}
             unsets == {name \in DOMAIN diff : diff[name].op = "DEL"}
         IN  ("$set" :> [p \in (DOMAIN mongo["$set"]) \cup {context \o name : name \in sets} |->
                            IF \E name \in sets : p = context \o name
                            THEN diff[CHOOSE name \in sets : p = context \o name].data
                            ELSE mongo["$set"][p]]
              @@
              "$unset" :> [p \in (DOMAIN mongo["$unset"]) \cup {context \o name : name \in unsets} |-> ""])

\* faulty variant of diffToMongo: the empty groups are not deleted
diffToMongoKeep(diff) ==
    _diffToMongo(diff, ("$set" :> << >> @@ "$unset" :> << >>), "")

\* Store.diffToMongo: translate, then delete an empty $set / $unset group
diffToMongo(diff) ==
    LET mongo == _diffToMongo(diff, ("$set" :> << >> @@ "$unset" :> << >>), "")
    IN  IF IsThrown(mongo) THEN mongo
        ELSE [g \in {h \in {"$set", "$unset"} : DOMAIN mongo[h] # {}} |-> mongo[g]]

\* ------------------------------------------- the mongodb collection used
\* a document matches an equality filter when it has every field of the
\* filter with the filter's value
matches(doc, filter) ==
    \A f \in DOMAIN filter : f \in DOMAIN doc /\ doc[f] = filter[f]

null == ("null" :> TRUE)

\* collection.findOne(filter)
findOne(c, filter) ==
    IF \E d \in c : matches(d, filter)
    THEN CHOOSE d \in c : matches(d, filter)
    ELSE null

\* collection.find(criteria).toArray(); find() without criteria is find({})
findToArray(c, criteria) == {d \in c : matches(d, criteria)}

\* an update document with $-operators modifies fields; one without
\* operators is a replacement document
IsOperatorUpdate(u) == (DOMAIN u) \cap {"$set", "$unset"} # {}

\* faulty variant of applyUpdate: the fields of $set replace the document
applyUpdateReplace(doc, u) ==
    LET set == IF "$set" \in DOMAIN u THEN u["$set"] ELSE << >>
    IN  [f \in (DOMAIN set) \cup {"_id"} |->
            IF f = "_id" THEN doc["_id"] ELSE set[f]]

applyUpdate(doc, u) ==
    IF IsOperatorUpdate(u)
    THEN LET set == IF "$set" \in DOMAIN u THEN u["$set"] ELSE << >>
             unset == IF "$unset" \in DOMAIN u THEN DOMAIN u["$unset"] ELSE {}
         IN  [f \in ((DOMAIN doc) \cup (DOMAIN set)) \ unset |->
                 IF f \in DOMAIN set THEN set[f] ELSE doc[f]]
    ELSE [f \in (DOMAIN u) \cup {"_id"} |->
             IF f = "_id" THEN doc["_id"] ELSE u[f]]

\* faulty variant of updateOne: an upsert adds the document without
\* looking for the one it should replace
updateOneInsert(c, filter, u, upsert) ==
    IF upsert THEN c \cup {applyUpdate(filter, u)}
    ELSE IF \E d \in c : matches(d, filter)
    THEN LET d == CHOOSE d \in c : matches(d, filter)
         IN  (c \ {d}) \cup {applyUpdate(d, u)}
    ELSE c

\* collection.updateOne(filter, update, {upsert}): the filter is {_id}
updateOne(c, filter, u, upsert) ==
    IF \E d \in c : matches(d, filter)
    THEN LET d == CHOOSE d \in c : matches(d, filter)
         IN  (c \ {d}) \cup {applyUpdate(d, u)}
    ELSE IF upsert THEN c \cup {applyUpdate(filter, u)} ELSE c

\* faulty variant of deleteOne: the result always counts one document
deleteOneCounted(c, filter) ==
    IF \E d \in c : matches(d, filter)
    THEN [coll |-> c \ {CHOOSE d \in c : matches(d, filter)}, deletedCount |-> 1]
    ELSE [coll |-> c, deletedCount |-> 1]

\* collection.deleteOne(filter): removes the first match, reports the count
deleteOne(c, filter) ==
    IF \E d \in c : matches(d, filter)
    THEN [coll |-> c \ {CHOOSE d \in c : matches(d, filter)}, deletedCount |-> 1]
    ELSE [coll |-> c, deletedCount |-> 0]

\* faulty variant of collection.remove: only the first match is removed
collectionRemoveOne(c, criteria) ==
    IF \E d \in c : matches(d, criteria)
    THEN c \ {CHOOSE d \in c : matches(d, criteria)}
    ELSE c

\* collection.remove(criteria): removes every match
collectionRemove(c, criteria) == {d \in c : ~matches(d, criteria)}

\* faulty variant of deleteMany: only the first id is looked at
deleteManyFirst(c, ids) == {d \in c : Len(ids) = 0 \/ d["_id"] # ids[1]}

\* collection.deleteMany({_id: {$in: ids}})
deleteMany(c, ids) == {d \in c : \A i \in 1..Len(ids) : d["_id"] # ids[i]}

\* collection.insertMany(items): a document without _id gets a fresh
\* ObjectId from the driver (n ObjectIds were generated before)
insertMany(c, items, n) ==
    c \cup {[f \in (DOMAIN items[i]) \cup {"_id"} |->
                IF f \in DOMAIN items[i] THEN items[i][f] ELSE OidBase + n + i]
             : i \in 1..Len(items)}

\* ------------------------------------------------------------------ state
VARIABLES
    coll,       \* the documents of the mongodb collection
    oids,       \* number of ObjectIds the driver has generated
    maps,       \* IndexMap.maps of the store's indexes
    last,       \* the facade operation invoked last, with its outcome and
                \* the number of backend calls it issued
    before,     \* the collection when that operation was invoked
    patch,      \* bulk: the BatchPatch of the invocation
    updates,    \* bulk: callbacks of the updates chain that have not run
    inserts,    \* bulk: the inserts array
    deletes,    \* bulk: the deletes array
    thrown,     \* bulk: the invocation threw out of the classification loop
    chain,      \* bulk: where the promise chain stands
    inflight,   \* bulk: the backend call issued and not yet answered
    events,     \* bulk: backend calls of the invocation, issued and answered
    handle,     \* the promise this.collection: pending, resolved or rejected
    reactions,  \* callbacks passed to this.collection.then while it is pending
    jobs,       \* the promise job queue: callbacks due to run, first in first out
    invoked,    \* the facade operations invoked on a store with a deferred handle
    issued,     \* the backend calls these operations have issued, in order
    mrg,        \* diff translator: the diff handed to Store.diffToMongo
    command,    \* diff translator: what diffToMongo returned (or threw)
    registered  \* IndexMap: the addSimpleField calls made, in order

vars == <<coll, oids, maps, last, before, patch, updates, inserts, deletes,
          thrown, chain, inflight, events, handle, reactions, jobs, invoked, issued,
          mrg, command, registered>>
bulkVars == <<patch, updates, inserts, deletes, thrown, chain, inflight, events>>
handleVars == <<handle, reactions, jobs, invoked, issued>>
translatorVars == <<mrg, command, registered>>

None == ("none" :> TRUE)
Ok(v) == ("ok" :> v)

\* INDEX_MAP of the tests: new IndexMap().addSimpleField(byA, "a"), here
\* with a second index on b; byC is an index the map was never told about
INDEX_MAP == addSimpleField(addSimpleField(<< >>, Index("byA"), "a"), Index("byB"), "b")

\* documents an earlier bulk call can leave behind: an inserted entity
\* under a generated ObjectId and a document that lost a field to $unset
LeftByBulk ==
    updateOne(insertMany({entry(2, Simple(2, "pizza", "hello"))},
                         <<Simple(1, "hello", "pizza")>>, 0),
              ("_id" :> 2), diffToMongo(DiffDelA), FALSE)

idle ==
    /\ last = [op |-> "none"]
    /\ before = coll
    /\ patch = << >>
    /\ updates = << >>
    /\ inserts = << >>
    /\ deletes = << >>
    /\ thrown = FALSE
    /\ chain = "idle"
    /\ inflight = None
    /\ events = << >>
    /\ reactions = << >>
    /\ jobs = << >>
    /\ invoked = << >>
    /\ issued = << >>
    /\ mrg = << >>
    /\ command = None
    /\ registered = << >>

\* a new store on a collection that is empty or was used before
Init ==
    /\ \/ coll = {} /\ oids = 0
       \/ coll = LeftByBulk /\ oids = 1
    /\ maps = INDEX_MAP
    /\ handle = "resolved"
    /\ idle

\* a new store on a collection holding the entities of keys 1..MaxKey-1
InitBulk ==
    /\ coll = {entry(k, Simple(k, "hello", "hello")) : k \in 1..(MaxKey - 1)}
    /\ oids = 0
    /\ maps = INDEX_MAP
    /\ handle = "resolved"
    /\ idle

\* a store from Client.getStore: its collection is the promise
\* this.db.then(db => db.collection(collection)) of a connection that is
\* still being made
InitHandle ==
    /\ coll = {entry(k, Simple(k, "hello", "hello")) : k \in 1..(MaxKey - 1)}
    /\ oids = 0
    /\ maps = INDEX_MAP
    /\ handle = "pending"
    /\ idle

\* the caller is one thread of control: it invokes the next operation when
\* the previous one has settled, and the chain of a bulk call has run out
Settled == chain \in {"idle", "fulfilled", "rejected"}

\* ------------------------------------------------- facade: single calls
\* the entities of a cursor's toArray(), mapped through value and fromJSON
\* (an array: an entity is counted as often as it occurs)
items(docs) ==
    [e \in {fromJSON(value(d)) : d \in docs} |->
        Cardinality({d \in docs : fromJSON(value(d)) = e})]

\* faulty variant of find: the null check is missing, so fromJSON is
\* handed null and throws
findResultUnchecked(c, _id) ==
    LET item == findOne(c, ("_id" :> _id))
    IN  IF item = null THEN Thrown(TypeError)
        ELSE Ok(fromJSON(value(item)))

\* what find(_id) settles with on collection c
findResult(c, _id) ==
    LET item == findOne(c, ("_id" :> _id))
    IN  IF item = null THEN Thrown(DoesNotExist)
        ELSE Ok(fromJSON(value(item)))

\* Store.find
find(_id) ==
    /\ Settled
    /\ \E failed \in BOOLEAN :
          last' = [op |-> "find", _id |-> _id, calls |-> 1,
                   res |-> IF failed THEN Thrown(BackendFailure)
                           ELSE findResult(coll, _id)]
    /\ before' = coll
    /\ UNCHANGED <<coll, oids, maps, handleVars, translatorVars, bulkVars>>

\* Store.all
all(c) == items(findToArray(c, << >>))

\* Store.findAll: the criteria are built before the collection is awaited
findAll(index, v) ==
    /\ Settled
    /\ LET mongo_criteria == toMongoCriteria(maps, index, v)
       IN  \E failed \in BOOLEAN :
              last' = [op |-> "findAll", index |-> index, value |-> v,
                       calls |-> IF IsThrown(mongo_criteria) THEN 0 ELSE 1,
                       res |-> IF IsThrown(mongo_criteria) THEN mongo_criteria
                               ELSE IF failed THEN Thrown(BackendFailure)
                               ELSE Ok(items(findToArray(coll, mongo_criteria)))]
    /\ before' = coll
    /\ UNCHANGED <<coll, oids, maps, handleVars, translatorVars, bulkVars>>

\* faulty variant of update: the object is inserted as a new document
\* under an id of the driver's
updateInsert(object) ==
    /\ Settled
    /\ \E failed \in BOOLEAN :
          /\ coll' = IF failed THEN coll
                     ELSE insertMany(coll, <<object>>, Cardinality(coll))
          /\ last' = [op |-> "update", object |-> object, calls |-> 1,
                      res |-> IF failed THEN Thrown(BackendFailure) ELSE Ok(TRUE)]
    /\ before' = coll
    /\ UNCHANGED <<oids, maps, handleVars, translatorVars, bulkVars>>

\* Store.update: upsert of entry(_id, object) under {_id}
update(object) ==
    /\ Settled
    /\ LET _id == key(object)
       IN  \E failed \in BOOLEAN :
              /\ coll' = IF failed THEN coll
                         ELSE updateOne(coll, ("_id" :> _id), entry(_id, object), TRUE)
              /\ last' = [op |-> "update", object |-> object, calls |-> 1,
                          res |-> IF failed THEN Thrown(BackendFailure) ELSE Ok(TRUE)]
    /\ before' = coll
    /\ UNCHANGED <<oids, maps, handleVars, translatorVars, bulkVars>>

\* Store.remove: resolves with the driver's result
remove(_id) ==
    /\ Settled
    /\ LET result == deleteOne(coll, ("_id" :> _id))
       IN  \E failed \in BOOLEAN :
              /\ coll' = IF failed THEN coll ELSE result.coll
              /\ last' = [op |-> "remove", _id |-> _id, calls |-> 1,
                          res |-> IF failed THEN Thrown(BackendFailure)
                                  ELSE Ok(result.deletedCount)]
    /\ before' = coll
    /\ UNCHANGED <<oids, maps, handleVars, translatorVars, bulkVars>>

\* Store.removeAll: the criteria are built when the collection is there
removeAll(index, v) ==
    /\ Settled
    /\ LET mongo_criteria == toMongoCriteria(maps, index, v)
       IN  \E failed \in BOOLEAN :
              /\ coll' = IF IsThrown(mongo_criteria) \/ failed THEN coll
                         ELSE collectionRemove(coll, mongo_criteria)
              /\ last' = [op |-> "removeAll", index |-> index, value |-> v,
                          calls |-> IF IsThrown(mongo_criteria) THEN 0 ELSE 1,
                          res |-> IF IsThrown(mongo_criteria) THEN mongo_criteria
                                  ELSE IF failed THEN Thrown(BackendFailure)
                                  ELSE Ok(TRUE)]
    /\ before' = coll
    /\ UNCHANGED <<oids, maps, handleVars, translatorVars, bulkVars>>

\* ------------------------------------------------------- facade: bulk
Pending == ("pending" :> TRUE)

\* faulty variant of the loop: each Mrg callback is chained in front of
\* the earlier ones
RECURSIVE classifyUnshift(_, _, _)
classifyUnshift(p, i, acc) ==
    IF i > Len(p) THEN acc
    ELSE LET k == p[i][1]
             op == p[i][2]
         IN  IF op.op = "Mrg"
             THEN classifyUnshift(p, i + 1, [acc EXCEPT !.updates = <<<<k, op>>>> \o @])
             ELSE IF op.op = "Ins"
             THEN classifyUnshift(p, i + 1, [acc EXCEPT !.inserts = Append(@, fromJSON(op.data))])
             ELSE IF op.op = "DEL"
             THEN classifyUnshift(p, i + 1, [acc EXCEPT !.deletes = Append(@, k)])
             ELSE [acc EXCEPT !.thrown = TRUE]

\* the for loop of Store.bulk from entry i on: a Mrg chains a callback on
\* updates, an Ins pushes the reconstructed entity on inserts, DEL pushes
\* the key on deletes, anything else throws out of the loop
RECURSIVE classify(_, _, _)
classify(p, i, acc) ==
    IF i > Len(p) THEN acc
    ELSE LET k == p[i][1]
             op == p[i][2]
         IN  IF op.op = "Mrg"
             THEN classify(p, i + 1, [acc EXCEPT !.updates = Append(@, <<k, op>>)])
             ELSE IF op.op = "Ins"
             THEN classify(p, i + 1, [acc EXCEPT !.inserts = Append(@, fromJSON(op.data))])
             ELSE IF op.op = "DEL"
             THEN classify(p, i + 1, [acc EXCEPT !.deletes = Append(@, k)])
             ELSE [acc EXCEPT !.thrown = TRUE]

\* Store.bulk up to its return (or throw).  The callbacks chained on
\* updates before a throw stay scheduled: they run although bulk threw.
\* The insert and the delete are chained (lines 247-249) only when the
\* loop completes.
bulk(p) ==
    /\ Settled
    /\ LET c == classify(p, 1, [updates |-> << >>, inserts |-> << >>,
                                deletes |-> << >>, thrown |-> FALSE])
       IN  /\ updates' = c.updates
           /\ inserts' = c.inserts
           /\ deletes' = c.deletes
           /\ thrown' = c.thrown
           /\ last' = [op |-> "bulk",
                       res |-> IF c.thrown THEN Thrown(UnsupportedPatchShape) ELSE Pending]
    /\ patch' = p
    /\ chain' = "updates"
    /\ inflight' = None
    /\ events' = << >>
    /\ before' = coll
    /\ UNCHANGED <<coll, oids, maps, handleVars, translatorVars>>

Issue(call) == [ev |-> "issue", call |-> call]
Answer(call, ev) == [ev |-> ev, call |-> call]

\* the promise bulk returned settles; after a throw nobody holds it
settle(res) == IF thrown THEN last' = last ELSE last' = [last EXCEPT !.res = res]

\* Store._updateFromDiff, run by the next callback of the updates chain:
\* translate the diff (a throw rejects the chain), then issue updateOne
_updateFromDiff ==
    /\ chain = "updates" /\ inflight = None /\ updates # << >>
    /\ LET _id == Head(updates)[1]
           diff == Head(updates)[2]
           mongoQuery == diffToMongo(diff.data)
       IN  IF IsThrown(mongoQuery)
           THEN /\ chain' = "rejected"
                /\ settle(mongoQuery)
                /\ UNCHANGED <<inflight, events>>
           ELSE /\ inflight' = [fn |-> "updateOne", _id |-> _id, update |-> mongoQuery]
                /\ events' = Append(events, Issue(inflight'))
                /\ UNCHANGED <<chain, last>>
    /\ UNCHANGED <<coll, oids, maps, handleVars, translatorVars, before, patch, updates,
                   inserts, deletes, thrown>>

\* faulty variant of _bulkInsert: chained whether inserts is empty or not
_bulkInsertAlways ==
    /\ ~thrown
    /\ chain = "updates" /\ inflight = None /\ updates = << >>
    /\ chain' = "insert"
    /\ inflight' = [fn |-> "insertMany", items |-> inserts]
    /\ events' = Append(events, Issue(inflight'))
    /\ UNCHANGED <<coll, oids, maps, handleVars, translatorVars, last, before, patch,
                   updates, inserts,
                   deletes, thrown>>

\* Store._bulkInsert, chained after updates when inserts is not empty
_bulkInsert ==
    /\ ~thrown
    /\ chain = "updates" /\ inflight = None /\ updates = << >>
    /\ Len(inserts) > 0
    /\ chain' = "insert"
    /\ inflight' = [fn |-> "insertMany", items |-> inserts]
    /\ events' = Append(events, Issue(inflight'))
    /\ UNCHANGED <<coll, oids, maps, handleVars, translatorVars, last, before, patch,
                   updates, inserts,
                   deletes, thrown>>

\* faulty variant of the delete: chained on updates, not on the insert
_bulkRemoveEarly ==
    /\ ~thrown
    /\ inflight = None
    /\ chain = "updates" /\ updates = << >>
    /\ Len(deletes) > 0
    /\ chain' = "delete"
    /\ inflight' = [fn |-> "deleteMany", ids |-> deletes]
    /\ events' = Append(events, [ev |-> "issue", call |-> inflight'])
    /\ UNCHANGED <<coll, oids, maps, handleVars, translatorVars, last, before, patch,
                   updates, inserts,
                   deletes, thrown>>

\* Store._bulkRemove, chained after the insert (or after updates when
\* nothing is inserted) when deletes is not empty
_bulkRemove ==
    /\ ~thrown
    /\ inflight = None
    /\ \/ chain = "updates" /\ updates = << >> /\ Len(inserts) = 0
       \/ chain = "insert"
    /\ Len(deletes) > 0
    /\ chain' = "delete"
    /\ inflight' = [fn |-> "deleteMany", ids |-> deletes]
    /\ events' = Append(events, Issue(inflight'))
    /\ UNCHANGED <<coll, oids, maps, handleVars, translatorVars, last, before, patch,
                   updates, inserts,
                   deletes, thrown>>

\* faulty variant of effect: _updateFromDiff passes {upsert: true}
effectUpsert(call, c, n) ==
    IF call.fn = "updateOne"
    THEN updateOne(c, ("_id" :> call._id), call.update, TRUE)
    ELSE IF call.fn = "insertMany"
    THEN insertMany(c, call.items, n)
    ELSE deleteMany(c, call.ids)

\* the collection after the backend has carried out a call
effect(call, c, n) ==
    IF call.fn = "updateOne"
    THEN updateOne(c, ("_id" :> call._id), call.update, FALSE)
    ELSE IF call.fn = "insertMany"
    THEN insertMany(c, call.items, n)
    ELSE deleteMany(c, call.ids)

\* the backend answers the call in flight: it has been carried out
backendOk ==
    /\ inflight # None
    /\ coll' = effect(inflight, coll, oids)
    /\ oids' = IF inflight.fn = "insertMany" THEN oids + Len(inflight.items) ELSE oids
    /\ updates' = IF inflight.fn = "updateOne" THEN Tail(updates) ELSE updates
    /\ events' = Append(events, Answer(inflight, "ok"))
    /\ inflight' = None
    /\ UNCHANGED <<maps, handleVars, translatorVars, last, before, patch, inserts,
                   deletes, thrown, chain>>

\* faulty variant of backendFail: the calls already carried out are undone
backendFailRollback ==
    /\ inflight # None
    /\ events' = Append(events, Answer(inflight, "fail"))
    /\ inflight' = None
    /\ chain' = "rejected"
    /\ settle(Thrown(BackendFailure))
    /\ coll' = before
    /\ UNCHANGED <<oids, maps, handleVars, translatorVars, before, patch, updates,
                   inserts, deletes, thrown>>

\* the backend answers the call in flight with a failure: the promise of
\* the call rejects, and with it the rest of the chain
backendFail ==
    /\ inflight # None
    /\ events' = Append(events, Answer(inflight, "fail"))
    /\ inflight' = None
    /\ chain' = "rejected"
    /\ settle(Thrown(BackendFailure))
    /\ UNCHANGED <<coll, oids, maps, handleVars, translatorVars, before, patch, updates,
                   inserts, deletes, thrown>>

\* faulty variant of the resolution: bulk returns the updates promise, not
\* the promise the insert and the delete are chained on
bulkResolveEarly ==
    /\ inflight = None
    /\ chain = "updates" /\ updates = << >>
    /\ chain' = "fulfilled"
    /\ settle(Ok(TRUE))
    /\ UNCHANGED <<coll, oids, maps, handleVars, translatorVars, before, patch, updates,
                   inserts, deletes, thrown,
                   inflight, events>>

\* nothing is left to run: the last promise of the chain is fulfilled
bulkResolve ==
    /\ inflight = None
    /\ \/ chain = "updates" /\ updates = << >> /\ thrown
       \/ chain = "updates" /\ updates = << >> /\ Len(inserts) = 0 /\ Len(deletes) = 0
       \/ chain = "insert" /\ Len(deletes) = 0
       \/ chain = "delete"
    /\ chain' = "fulfilled"
    /\ settle(Ok(TRUE))
    /\ UNCHANGED <<coll, oids, maps, handleVars, translatorVars, before, patch, updates,
                   inserts, deletes, thrown,
                   inflight, events>>

\* ------------------------------------- facade: behind a deferred handle
\* Every operation reaches the backend through this.collection.then(cb).
\* The operations below are the facade's methods up to their return: what
\* they pass to then, on a handle that may still be pending.  Their backend
\* calls are logged in issued; what the backend does with a call is the
\* subject of Spec and SpecBulk.
storeVars == <<coll, oids, maps, last, before, bulkVars>>

\* an invocation, the n-th on this store: fn is the backend call it is to
\* issue ("none" when it fails before any), early tells that the handle
\* was pending when it was invoked
Invocation(op, fn) ==
    [n |-> Len(invoked) + 1, op |-> op, fn |-> fn, early |-> handle = "pending"]

\* a callback: run "issue" is collection => collection.fn(...), run "then"
\* is a callback of the bulk chain, which calls this.collection.then itself
Callback(run, fn) == [n |-> Len(invoked) + 1, run |-> run, fn |-> fn]

\* promise.then(cb) on this.collection: cb waits with the reactions of a
\* pending promise, is queued as a job on a resolved one, and is never run
\* on a rejected one
thenReactions(rs, cb) == IF handle = "pending" THEN Append(rs, cb) ELSE rs
thenJobs(js, cb) == IF handle = "resolved" THEN Append(js, cb) ELSE js

\* a single-call operation: this.collection.then(collection => collection.fn(...))
invokeSingle(op, fn) ==
    /\ Len(invoked) < MaxInvoked
    /\ invoked' = Append(invoked, Invocation(op, fn))
    /\ reactions' = thenReactions(reactions, Callback("issue", fn))
    /\ jobs' = thenJobs(jobs, Callback("issue", fn))
    /\ UNCHANGED <<storeVars, translatorVars, handle, issued>>

\* Store.find, Store.update and Store.remove up to their return (the key
\* or the object they are called with has no part in when the call is
\* issued)
findPending == invokeSingle("find", "findOne")
updatePending == invokeSingle("update", "updateOne")
removePending == invokeSingle("remove", "deleteOne")

\* Store.findAll up to its return: the criteria are built first, and a
\* throw leaves the method before this.collection.then is reached
findAllPending(index, v) ==
    IF IsThrown(toMongoCriteria(maps, index, v))
    THEN /\ Len(invoked) < MaxInvoked
         /\ invoked' = Append(invoked, Invocation("findAll", "none"))
         /\ UNCHANGED <<storeVars, translatorVars, handle, reactions, jobs, issued>>
    ELSE invokeSingle("findAll", "find")

\* Store.removeAll up to its return: the callback builds the criteria, and
\* a throw leaves it before collection.remove is called
removeAllPending(index, v) ==
    IF IsThrown(toMongoCriteria(maps, index, v))
    THEN invokeSingle("removeAll", "none")
    ELSE invokeSingle("removeAll", "remove")

\* the backend call the first callback of bulk's chain issues: the update
\* of the first Mrg entry ("none" when its translation throws), else the
\* insert, else the delete; "" when bulk chains no callback at all
firstCall(p) ==
    LET c == classify(p, 1, [updates |-> << >>, inserts |-> << >>,
                             deletes |-> << >>, thrown |-> FALSE])
    IN  IF c.updates # << >>
        THEN IF IsThrown(diffToMongo(c.updates[1][2].data)) THEN "none" ELSE "updateOne"
        ELSE IF c.thrown THEN ""
        ELSE IF Len(c.inserts) > 0 THEN "insertMany"
        ELSE IF Len(c.deletes) > 0 THEN "deleteMany"
        ELSE ""

\* Store.bulk up to its return (or throw): the first callback is chained on
\* Promise.resolve(), a resolved promise, so it is queued as a job; it will
\* call this.collection.then when it runs, not before
bulkPending(p) ==
    /\ Len(invoked) < MaxInvoked
    /\ LET fn == firstCall(p)
       IN  /\ invoked' = Append(invoked, Invocation("bulk", IF fn = "" THEN "none" ELSE fn))
           /\ jobs' = IF fn = "" THEN jobs ELSE Append(jobs, Callback("then", fn))
    /\ UNCHANGED <<storeVars, translatorVars, handle, reactions, issued>>

\* faulty variant of the resolution: the reactions run last in first out
RECURSIVE Reverse(_)
Reverse(q) == IF q = << >> THEN << >> ELSE Append(Reverse(Tail(q)), Head(q))

resolveHandleLifo ==
    /\ handle = "pending"
    /\ handle' = "resolved"
    /\ jobs' = jobs \o Reverse(reactions)
    /\ reactions' = << >>
    /\ UNCHANGED <<storeVars, translatorVars, invoked, issued>>

\* the connection is made and db.collection(collection) returned: the
\* handle resolves and its reactions are queued in the order they were
\* passed to then
resolveHandle ==
    /\ handle = "pending"
    /\ handle' = "resolved"
    /\ jobs' = jobs \o reactions
    /\ reactions' = << >>
    /\ UNCHANGED <<storeVars, translatorVars, invoked, issued>>

\* MongoClient.connect fails: the handle rejects, the reactions pass the
\* rejection on and none of the callbacks runs
rejectHandle ==
    /\ handle = "pending"
    /\ handle' = "rejected"
    /\ reactions' = << >>
    /\ UNCHANGED <<storeVars, translatorVars, jobs, invoked, issued>>

\* the job at the head of the queue is collection => collection.fn(...):
\* the backend call is issued, unless the callback throws before it
runIssue ==
    /\ jobs # << >> /\ Head(jobs).run = "issue"
    /\ jobs' = Tail(jobs)
    /\ issued' = IF Head(jobs).fn = "none" THEN issued
                 ELSE Append(issued, [n |-> Head(jobs).n, fn |-> Head(jobs).fn])
    /\ UNCHANGED <<storeVars, translatorVars, handle, reactions, invoked>>

\* the job at the head of the queue is a callback of the bulk chain:
\* _updateFromDiff (after the translation), _bulkInsert or _bulkRemove
\* calls this.collection.then
runThen ==
    /\ jobs # << >> /\ Head(jobs).run = "then"
    /\ LET cb == [Head(jobs) EXCEPT !.run = "issue"]
       IN  IF cb.fn = "none"
           THEN /\ jobs' = Tail(jobs)
                /\ reactions' = reactions
           ELSE /\ jobs' = thenJobs(Tail(jobs), cb)
                /\ reactions' = thenReactions(reactions, cb)
    /\ UNCHANGED <<storeVars, translatorVars, handle, invoked, issued>>

\* --------------------------------------- the diff translator on its own
\* names of the properties of a diff
DiffFields == {"a", "b", "g"}
\* what a property of a diff holds, if the diff has the property
Shapes == {"absent", "Rpl hello", "Rpl pizza", "DEL", "Ins", "Mrg"}
PropertyOf(shape) ==
    IF shape = "Rpl hello" THEN Rpl("hello")
    ELSE IF shape = "Rpl pizza" THEN Rpl("pizza")
    ELSE IF shape = "DEL" THEN DEL
    ELSE IF shape = "Ins" THEN Ins("pizza")
    ELSE Mrg(("h" :> Rpl("pizza")))
\* the diff (the data of an Operations.Mrg) whose properties hold shape
DiffOf(shape) ==
    [f \in {g \in DiffFields : shape[g] # "absent"} |-> PropertyOf(shape[f])]

\* a call of Store.diffToMongo(diff): it returns the command or throws
diffToMongoCall(diff) ==
    /\ mrg' = diff
    /\ command' = diffToMongo(diff)
    /\ UNCHANGED <<storeVars, handleVars, registered>>

\* ------------------------------------------------ the IndexMap on its own
\* index functions: two functions can carry the same name
NamedFunction(name, fn) == [name |-> name, fn |-> fn]
NamedFunctions == {NamedFunction(n, fn) : n \in {"byA", "byB"}, fn \in 1..2}

\* new IndexMap(): no index is known
InitIndexMap ==
    /\ coll = {}
    /\ oids = 0
    /\ maps = << >>
    /\ handle = "resolved"
    /\ idle

\* a call of indexes.addSimpleField(index, name): it returns this, the
\* IndexMap with the new binding
addSimpleFieldCall(index, name) ==
    /\ Len(registered) < MaxRegistered
    /\ maps' = addSimpleField(maps, index, name)
    /\ registered' = Append(registered, [index |-> index, name |-> name])
    /\ last' = [op |-> "addSimpleField", index |-> index, name |-> name,
                maps |-> maps, res |-> maps']
    /\ UNCHANGED <<coll, oids, before, bulkVars, handleVars, mrg, command>>

\* a call of indexes.toMongoCriteria(index, value): it returns the criteria
\* or throws
toMongoCriteriaCall(index, v) ==
    /\ last' = [op |-> "toMongoCriteria", index |-> index, value |-> v,
                maps |-> maps, res |-> toMongoCriteria(maps, index, v)]
    /\ UNCHANGED <<coll, oids, maps, before, bulkVars, handleVars, translatorVars>>

\* ----------------------------------------------------------- behaviours
\* the single-call operations of the facade
Next ==
    \/ \E object \in Entities : update(object)
    \/ \E _id \in Keys : find(_id)
    \/ \E _id \in Keys : remove(_id)
    \/ \E index \in Indexes, v \in Vals : findAll(index, v)
    \/ \E index \in Indexes, v \in Vals : removeAll(index, v)

Spec == Init /\ [][Next]_vars

\* bulk called with a BatchPatch (Operations.Map) that extends the entries
\* p by up to n more [key, op] entries, a key occurring in one entry at most
RECURSIVE bulkOfPatch(_, _)
bulkOfPatch(p, n) ==
    \/ bulk(p)
    \/ /\ n > 0
       /\ \E k \in Keys \ {p[i][1] : i \in 1..Len(p)} :
             \E o \in OpsFor(k) : bulkOfPatch(Append(p, <<k, o>>), n - 1)

\* one bulk call and the run of its promise chain
NextBulk ==
    \/ last.op = "none" /\ bulkOfPatch(<< >>, MaxPatchLen)
    \/ _updateFromDiff
    \/ _bulkInsert
    \/ _bulkRemove
    \/ backendOk
    \/ backendFail
    \/ bulkResolve

SpecBulk == InitBulk /\ [][NextBulk]_vars

\* operations invoked without waiting for one another on a store whose
\* handle is deferred, and the run of the promise jobs
NextHandle ==
    \/ findPending
    \/ updatePending
    \/ removePending
    \/ \E index \in Indexes, v \in Vals : findAllPending(index, v)
    \/ \E index \in Indexes, v \in Vals : removeAllPending(index, v)
    \/ bulkPending(<< >>)
    \/ \E o \in OpsFor(1) : bulkPending(<<<<1, o>>>>)
    \/ resolveHandle
    \/ rejectHandle
    \/ runIssue
    \/ runThen

SpecHandle == InitHandle /\ [][NextHandle]_vars

\* calls of the diff translator with the diffs over DiffFields
NextDiff == \E shape \in [DiffFields -> Shapes] : diffToMongoCall(DiffOf(shape))

SpecDiff == Init /\ [][NextDiff]_vars

\* an IndexMap that is told about indexes and asked for criteria
NextIndexMap ==
    \/ \E index \in NamedFunctions, name \in IndexFields : addSimpleFieldCall(index, name)
    \/ \E index \in NamedFunctions, v \in Vals : toMongoCriteriaCall(index, v)

SpecIndexMap == InitIndexMap /\ [][NextIndexMap]_vars

\* ------------------------------------------------------------- properties
\* the entities of the documents docs that have field f equal to v, as
\* Store.all would list them and the index function would filter them
Filtered(docs, f, v) ==
    LET every == all(docs)
    IN  [e \in {x \in DOMAIN every : f \in DOMAIN x /\ x[f] = v} |-> every[e]]

HasId(docs, _id) == \E d \in docs : d["_id"] = _id

C6_FindMissing ==
    last.op = "find" =>
        /\ coll = before
        /\ (~HasId(before, last._id) /\ last.res # Thrown(BackendFailure))
               => last.res = Thrown(DoesNotExist)

\* C6 witness: find failed with DoesNotExist on a collection that is not
\* empty
C6_Witness ==
    /\ last.op = "find" /\ last.res = Thrown(DoesNotExist)
    /\ coll # {}

\* C9: for an index registered with field f, findAll(index, v), once the
\* backend has answered, resolves with exactly the entities of the
\* collection whose field f equals v, and leaves the collection as it was
C9_FindAllExact ==
    (last.op = "findAll" /\ last.index.name \in DOMAIN maps) =>
        /\ coll = before
        /\ last.res # Thrown(BackendFailure)
               => last.res = Ok(Filtered(before, maps[last.index.name], last.value))

\* C9 witness: findAll resolved with some, not all, entities of the
\* collection
C9_Witness ==
    /\ last.op = "findAll" /\ last.index.name \in DOMAIN maps
    /\ last.res # Thrown(BackendFailure)
    /\ DOMAIN last.res["ok"] # {}
    /\ DOMAIN last.res["ok"] # DOMAIN all(before)

\* C10: for an index registered with field f, when removeAll(index, v) has
\* resolved the collection holds exactly the documents it held before whose
\* entity does not have field f equal to v, each unchanged
C10_RemoveAllExact ==
    (last.op = "removeAll" /\ last.res = Ok(TRUE)) =>
        coll = {d \in before :
                   LET e == fromJSON(value(d))
                       f == maps[last.index.name]
                   IN  ~(f \in DOMAIN e /\ e[f] = last.value)}

\* C10 witness: removeAll removed two entities and left one
C10_Witness ==
    /\ last.op = "removeAll" /\ last.res = Ok(TRUE)
    /\ Cardinality(before \ coll) >= 2
    /\ coll # {}

\* C13: update is idempotent: for every entity e and every collection, a
\* second update(e) right after update(e) has resolved leaves the
\* collection, and with it the result of find(key(e)), as the first one
\* left them
C13_UpdateIdempotent ==
    [][(/\ last.op = "update" /\ last.res = Ok(TRUE)
        /\ last'.op = "update" /\ last'.res = Ok(TRUE)
        /\ last'.object = last.object)
       => /\ coll' = coll
          /\ findResult(coll', key(last.object)) = findResult(coll, key(last.object))]_vars

\* C13 witness: update(e) resolved on a collection that was as update(e)
\* leaves it, next to another document
C13_Witness ==
    /\ last.op = "update" /\ last.res = Ok(TRUE)
    /\ entry(key(last.object), last.object) \in before
    /\ coll = before
    /\ Cardinality(coll) >= 2

C11_UnregisteredFails ==
    (last.op \in {"findAll", "removeAll"} /\ last.index.name \notin DOMAIN maps) =>
        /\ last.res = Thrown(UnsupportedIndex)
        /\ last.calls = 0
        /\ coll = before

\* C11 witness: removeAll with an unregistered index failed on a collection
\* that holds documents
C11_Witness ==
    /\ last.op = "removeAll" /\ last.index.name \notin DOMAIN maps
    /\ last.res = Thrown(UnsupportedIndex)
    /\ Cardinality(coll) >= 2

\* ---- bulk: the backend calls of an invocation, read off the event log
IsMrgEntry(e) == e[2].op = "Mrg"
IsInsEntry(e) == e[2].op = "Ins"
IsDelEntry(e) == e[2].op = "DEL"
IsUpdateEvent(x) == x.call.fn = "updateOne"

\* the positions of the log where a call of kind fn was issued / answered
At(ev, fn) == {j \in DOMAIN events : events[j].ev = ev /\ events[j].call.fn = fn}
\* the entities and the keys the BatchPatch asks to insert / delete
Queued(p) == LET e == SelectSeq(p, IsInsEntry)
             IN  [i \in 1..Len(e) |-> fromJSON(e[i][2].data)]
Doomed(p) == LET e == SelectSeq(p, IsDelEntry)
             IN  [i \in 1..Len(e) |-> e[i][1]]
\* the keys of the entities a collection lists
EntityKeys(docs) == {key(e) : e \in {x \in DOMAIN all(docs) : "uid" \in DOMAIN x}}

\* C2: a BatchPatch with a top-level Rpl at any position makes bulk fail
\* with the unknown-operation error, no backend call of the invocation is
\* ever issued and the collection stays as it was
C2_ReplaceFailsFast ==
    (last.op = "bulk" /\ \E i \in DOMAIN patch : patch[i][2].op = "Rpl") =>
        /\ last.res = Thrown(UnsupportedPatchShape)
        /\ events = << >>
        /\ coll = before

\* C3: the updateOne calls of a bulk invocation are issued one after
\* another in BatchPatch order, each only when every earlier one was
\* answered successfully; a Mrg entry never gets a second call, and when
\* bulk resolves every Mrg entry has got its call
C3_UpdatesSequential ==
    LET U == SelectSeq(events, IsUpdateEvent)
        M == SelectSeq(patch, IsMrgEntry)
    IN  /\ \A j \in 1..Len(U) : (U[j].ev = "issue") <=> (j % 2 = 1)
        /\ \A j \in 2..Len(U) : U[j].ev = "issue" => U[j - 1].ev = "ok"
        /\ \A j \in 1..Len(U) : U[j].ev = "issue" =>
              /\ (j + 1) \div 2 <= Len(M)
              /\ U[j].call._id = M[(j + 1) \div 2][1]
        /\ (last.op = "bulk" /\ last.res = Ok(TRUE)) => Len(U) = 2 * Len(M)

\* C3 witness: bulk resolved after two updates
C3_Witness ==
    /\ last.op = "bulk" /\ last.res = Ok(TRUE)
    /\ Cardinality(At("ok", "updateOne")) = 2

\* C4: wherever Ins and DEL entries stand in the BatchPatch, a bulk
\* invocation issues at most one insertMany, carrying all queued entities
\* and issued only when every update was answered, and at most one
\* deleteMany, carrying all queued keys and issued only when the insert was
\* answered; nothing queued, no call
C4_OneInsertThenOneDelete ==
    LET M == SelectSeq(patch, IsMrgEntry)
        updated(j) == Cardinality({i \in At("ok", "updateOne") : i < j})
    IN  /\ Cardinality(At("issue", "insertMany")) <= 1
        /\ Cardinality(At("issue", "deleteMany")) <= 1
        /\ \A j \in At("issue", "insertMany") :
              /\ updated(j) = Len(M)
              /\ events[j].call.items = Queued(patch)
        /\ \A j \in At("issue", "deleteMany") :
              /\ updated(j) = Len(M)
              /\ events[j].call.ids = Doomed(patch)
              /\ Len(Queued(patch)) > 0 => \E i \in At("ok", "insertMany") : i < j
        /\ Len(Queued(patch)) = 0 => At("issue", "insertMany") = {}
        /\ Len(Doomed(patch)) = 0 => At("issue", "deleteMany") = {}

\* C4 witness: bulk resolved after an update, the insert and the delete
C4_Witness ==
    /\ last.op = "bulk" /\ last.res = Ok(TRUE)
    /\ At("ok", "updateOne") # {}
    /\ At("ok", "insertMany") # {}
    /\ At("ok", "deleteMany") # {}

\* C5: when a backend call of a bulk invocation fails, bulk fails with
\* that failure and no later backend call of the invocation is issued
C5_FailureEndsBulk ==
    \A j \in DOMAIN events : events[j].ev = "fail" =>
        /\ j = Len(events)
        /\ last.res = Thrown(BackendFailure)

\* C7: when a bulk call whose BatchPatch maps key k to Ins(value) has
\* resolved, find(k) resolves with an entity equal to value
C7_InsertedIsFound ==
    (last.op = "bulk" /\ last.res = Ok(TRUE)) =>
        \A i \in DOMAIN patch : patch[i][2].op = "Ins" =>
            findResult(coll, patch[i][1]) = Ok(fromJSON(patch[i][2].data))

\* C8: a Mrg for a key that is not in the collection creates no entity for
\* that key: throughout a bulk invocation no document appears under the
\* key of a Mrg entry, and the keys of the entities of the collection grow
\* only by keys of Ins entries
C8_MergeCreatesNothing ==
    last.op = "bulk" =>
        /\ \A i \in DOMAIN patch :
              (patch[i][2].op = "Mrg" /\ ~HasId(before, patch[i][1]))
                  => ~HasId(coll, patch[i][1])
        /\ EntityKeys(coll) \ EntityKeys(before)
              \subseteq {patch[i][1] : i \in {j \in DOMAIN patch : patch[j][2].op = "Ins"}}

\* C8 witness: bulk resolved after the update for a Mrg entry whose key is
\* not in the collection was answered
C8_Witness ==
    /\ last.op = "bulk" /\ last.res = Ok(TRUE)
    /\ \E j \in At("ok", "updateOne") :
          /\ ~HasId(before, events[j].call._id)
          /\ events[j].call.update # << >>

\* a diff that replaces one field and does nothing else
IsSingleReplace(diff) ==
    /\ Cardinality(DOMAIN diff) = 1
    /\ \A f \in DOMAIN diff : diff[f].op = "Rpl"

\* document d with field f set to v, every other field as it is
WithField(d, f, v) == [g \in (DOMAIN d) \cup {f} |-> IF g = f THEN v ELSE d[g]]

\* C12: a bulk call whose BatchPatch maps keys to Mrg({f: Rpl(v)}) changes,
\* for each of these keys that is in the collection, field f of its entity
\* to v and nothing else: while the call runs every document is as it was
\* or differs in that field only, none is added or removed, and when the
\* call has resolved every one of these entities has the new value
C12_MergeReplacesOneField ==
    (/\ last.op = "bulk"
     /\ \A i \in DOMAIN patch : patch[i][2].op = "Mrg" /\ IsSingleReplace(patch[i][2].data)) =>
        LET merged(d) ==
                IF \E i \in DOMAIN patch : patch[i][1] = d["_id"]
                THEN LET diff == patch[CHOOSE i \in DOMAIN patch : patch[i][1] = d["_id"]][2].data
                         f == CHOOSE f \in DOMAIN diff : TRUE
                     IN  WithField(d, f, diff[f].data)
                ELSE d
        IN  /\ coll \subseteq before \cup {merged(d) : d \in before}
            /\ \A d \in before : d \in coll \/ merged(d) \in coll
            /\ Cardinality(coll) = Cardinality(before)
            /\ last.res = Ok(TRUE) => coll = {merged(d) : d \in before}

\* C12 witness: bulk resolved after it changed field b of one entity and
\* left another entity alone
C12_Witness ==
    /\ last.op = "bulk" /\ last.res = Ok(TRUE)
    /\ Len(patch) = 1 /\ patch[1][2] = Mrg(DiffB)
    /\ \E d \in before : d["_id"] = patch[1][1] /\ d \notin coll
    /\ \E d \in before : d["_id"] # patch[1][1] /\ d \in coll

\* C15: the promise bulk returned is resolved only when every phase with
\* queued work has completed successfully: every Mrg entry has had its
\* update answered, the insert (if any entity was queued) and the delete
\* (if any key was queued) were answered, no call failed, and no call of
\* the invocation is unissued or in flight
C15_ResolvesAfterAllPhases ==
    (last.op = "bulk" /\ last.res = Ok(TRUE)) =>
        /\ inflight = None
        /\ updates = << >>
        /\ \A j \in DOMAIN events : events[j].ev # "fail"
        /\ Cardinality(At("ok", "updateOne")) = Len(SelectSeq(patch, IsMrgEntry))
        /\ Cardinality(At("ok", "insertMany")) = IF Len(Queued(patch)) > 0 THEN 1 ELSE 0
        /\ Cardinality(At("ok", "deleteMany")) = IF Len(Doomed(patch)) > 0 THEN 1 ELSE 0
        /\ \A fn \in {"updateOne", "insertMany", "deleteMany"} :
              Cardinality(At("issue", fn)) = Cardinality(At("ok", fn))

\* C15 witness: bulk resolved when its update, its insert and its delete had been answered, in a BatchPatch that starts with the
\* delete
C15_Witness ==
    /\ last.op = "bulk" /\ last.res = Ok(TRUE)
    /\ Len(patch) = MaxPatchLen
    /\ patch[1][2] = DEL
    /\ Cardinality(At("ok", "updateOne")) >= 1
    /\ At("ok", "insertMany") # {}
    /\ At("ok", "deleteMany") # {}

\* ---- bulk: what the translation of a Mrg entry sends
\* a diff with a field that holds neither Rpl nor DEL nor Mrg
HasOtherVariant(diff) == \E f \in DOMAIN diff : diff[f].op \notin {"Rpl", "DEL", "Mrg"}

\* C18: nested merges are flattened: for a Mrg entry whose field g holds
\* Mrg({h: Rpl(v)}) or Mrg({h: DEL}) the translation succeeds, and the
\* update issued for the entry sets "g.h" to v, respectively unsets "g.h"
C18_NestedFlattened ==
    last.op = "bulk" =>
        /\ last.res # Thrown(TypeError)
        /\ \A j \in At("issue", "updateOne") : \A i \in DOMAIN patch :
              (patch[i][1] = events[j].call._id /\ patch[i][2].op = "Mrg") =>
                  LET diff == patch[i][2].data
                      u == events[j].call.update
                  IN  \A g \in DOMAIN diff : diff[g].op = "Mrg" =>
                          \A h \in DOMAIN diff[g].data :
                              LET sub == diff[g].data[h]
                                  path == g \o "." \o h
                              IN  /\ sub.op = "Rpl" =>
                                        /\ "$set" \in DOMAIN u
                                        /\ path \in DOMAIN u["$set"]
                                        /\ u["$set"][path] = sub.data
                                  /\ sub.op = "DEL" =>
                                        /\ "$unset" \in DOMAIN u
                                        /\ path \in DOMAIN u["$unset"]

\* C19: when a field of a Mrg entry's diff holds a variant other than Rpl,
\* DEL or Mrg, the translation fails with the unsupported-shape error: no
\* updateOne is issued for that key and bulk does not resolve
C19_OtherVariantFails ==
    last.op = "bulk" =>
        \A i \in DOMAIN patch :
            (patch[i][2].op = "Mrg" /\ HasOtherVariant(patch[i][2].data)) =>
                /\ \A j \in At("issue", "updateOne") : events[j].call._id # patch[i][1]
                /\ last.res # Ok(TRUE)
                /\ (chain = "rejected" /\ ~thrown /\ Len(updates) > 0
                        /\ Head(updates)[1] = patch[i][1] /\ At("fail", "updateOne") = {})
                       => last.res = Thrown(UnsupportedPatchShape)

\* C20: an empty Mrg is a no-op: bulk does not fail over it, and the
\* document stored under its key stays exactly as it was
C20_EmptyMergeNoOp ==
    last.op = "bulk" =>
        /\ \A i \in DOMAIN patch :
              (patch[i][2].op = "Mrg" /\ DOMAIN patch[i][2].data = {}) =>
                  \A d \in before : d["_id"] = patch[i][1] => d \in coll
        /\ (\A i \in DOMAIN patch :
                patch[i][2].op = "Mrg" /\ DOMAIN patch[i][2].data = {})
               => last.res \in {Pending, Ok(TRUE), Thrown(BackendFailure)}

\* ---- operations behind a deferred handle
\* the operations invoked while the handle was pending that have a backend
\* call to issue, and the calls issued for such operations
HasCall(i) == i.early /\ i.fn # "none"
OfEarly(c) == invoked[c.n].early
EarlyCalls == LET e == SelectSeq(invoked, HasCall)
              IN  [j \in 1..Len(e) |-> [n |-> e[j].n, fn |-> e[j].fn]]
\* the promise jobs have run out
Quiet == jobs = << >>

\* C17 as claimed: operations invoked before the handle resolves issue no
\* backend call until it has resolved, the handle resolves at most once,
\* and once it has resolved (and the promise jobs have run) every such
\* operation has issued its backend call, in the order the operations were
\* invoked
C17_QueuedInOrder ==
    /\ [](handle # "resolved" => issued = << >>)
    /\ [][handle # "pending" => handle' = handle]_vars
    /\ []((handle = "resolved" /\ Quiet) => SelectSeq(issued, OfEarly) = EarlyCalls)

\* C17 amended: as claimed, but the calls are issued in the order of
\* invocation only among find, findAll, update, remove and removeAll; a
\* bulk passes its first call to the handle one promise job after it was
\* invoked, so that call is issued once after the resolution, after the
\* calls of all operations invoked before the bulk, yet possibly after
\* calls of operations invoked later
C17_QueuedBehindHandle ==
    /\ [](handle # "resolved" => issued = << >>)
    /\ [][handle # "pending" => handle' = handle]_vars
    /\ [](\A i, j \in DOMAIN issued :
             i < j => /\ issued[i].n # issued[j].n
                      /\ issued[i].n > issued[j].n => invoked[issued[j].n].op = "bulk")
    /\ []((handle = "resolved" /\ Quiet) =>
             /\ Len(SelectSeq(issued, OfEarly)) = Len(EarlyCalls)
             /\ \A j \in DOMAIN EarlyCalls :
                   \E i \in DOMAIN issued : issued[i] = EarlyCalls[j])

\* C17 witness: three operations, a bulk among them, were invoked while
\* the handle was pending, and all have issued their calls
C17_Witness ==
    /\ handle = "resolved" /\ Quiet
    /\ Len(EarlyCalls) = MaxInvoked
    /\ Len(issued) = MaxInvoked
    /\ \E n \in DOMAIN invoked : invoked[n].op = "bulk"
    /\ invoked[MaxInvoked].op = "removeAll"

\* ---- the diff translator
\* the groups of a command, empty when the command lacks the group
SetGroup(c) == IF "$set" \in DOMAIN c THEN c["$set"] ELSE << >>
UnsetGroup(c) == IF "$unset" \in DOMAIN c THEN c["$unset"] ELSE << >>
Translated == command # None

\* C21: for a diff whose properties hold only Rpl and DEL, the command's
\* $set maps exactly the Rpl properties to their values and its $unset
\* holds exactly the DEL properties: no property is in both groups and none
\* is dropped
C21_SetAndUnsetExact ==
    (Translated /\ \A f \in DOMAIN mrg : mrg[f].op \in {"Rpl", "DEL"}) =>
        /\ ~IsThrown(command)
        /\ DOMAIN SetGroup(command) = {f \in DOMAIN mrg : mrg[f].op = "Rpl"}
        /\ \A f \in DOMAIN SetGroup(command) : SetGroup(command)[f] = mrg[f].data
        /\ DOMAIN UnsetGroup(command) = {f \in DOMAIN mrg : mrg[f].op = "DEL"}
        /\ DOMAIN SetGroup(command) \cap DOMAIN UnsetGroup(command) = {}
        /\ DOMAIN SetGroup(command) \cup DOMAIN UnsetGroup(command) = DOMAIN mrg

\* C21 witness: a diff of three properties, Rpl and DEL among them, was
\* translated into a command with both groups
C21_Witness ==
    /\ Translated
    /\ DOMAIN mrg = DiffFields
    /\ \A f \in DOMAIN mrg : mrg[f].op \in {"Rpl", "DEL"}
    /\ DOMAIN command = {"$set", "$unset"}

\* C22: a command that diffToMongo returns has a $set group exactly when
\* some property is set and an $unset group exactly when some property is
\* unset, a group it has is not empty, and a diff with nothing to set and
\* nothing to unset gives a command with neither group
C22_EmptyGroupsOmitted ==
    (Translated /\ ~IsThrown(command)) =>
        /\ DOMAIN command \subseteq {"$set", "$unset"}
        /\ "$set" \in DOMAIN command <=> \E f \in DOMAIN mrg : mrg[f].op = "Rpl"
        /\ "$unset" \in DOMAIN command <=> \E f \in DOMAIN mrg : mrg[f].op = "DEL"
        /\ \A g \in DOMAIN command : DOMAIN command[g] # {}

\* C22 witness: a diff that only unsets was translated into a command with
\* the $unset group alone
C22_Witness ==
    /\ Translated
    /\ DOMAIN command = {"$unset"}
    /\ Cardinality(DOMAIN mrg) >= 2

\* ---- bulk: what a failed bulk leaves behind
\* the collection c after the calls answered "ok" among the events from i on
RECURSIVE Completed(_, _, _)
Completed(evs, i, c) ==
    IF i > Len(evs) THEN c
    ELSE IF evs[i].ev = "ok"
    THEN Completed(evs, i + 1, effect(evs[i].call, c, 0))
    ELSE Completed(evs, i + 1, c)
Failed == last.op = "bulk" /\ chain = "rejected"
AnsweredOk == {i \in 1..Len(events) : events[i].ev = "ok"}
AnsweredFail == {i \in 1..Len(events) : events[i].ev = "fail"}

\* C23: bulk does not roll back: when its chain is rejected, the collection
\* is the collection at the invocation with every backend call that was
\* answered "ok" carried out, and bulk has reported a failure (the backend's
\* failure when a backend call of a returned bulk failed)
C23_NoRollback ==
    Failed =>
        /\ coll = Completed(events, 1, before)
        /\ IsThrown(last.res)
        /\ (~thrown /\ AnsweredFail # {}) => last.res = Thrown(BackendFailure)

\* C23 witness: a bulk that bulk returned failed at a backend call after an
\* earlier call had changed the collection
C23_Witness ==
    /\ Failed /\ ~thrown
    /\ AnsweredOk # {} /\ AnsweredFail # {}
    /\ coll # before

\* ---- bulk: retries and swallowed failures
Issued == {i \in 1..Len(events) : events[i].ev = "issue"}

\* C24: no backend call of a bulk invocation is issued twice, and a backend
\* call that failed makes bulk fail with the backend's failure
C24_OnceAndSurfaced ==
    /\ \A i, j \in Issued :
          (events[i].call.fn = events[j].call.fn /\ events[i].call = events[j].call)
              => i = j
    /\ AnsweredFail # {} => (last.op = "bulk" /\ last.res = Thrown(BackendFailure))

\* ---- bulk: classification and the first backend call
\* the number of entries of p the loop of bulk has looked at when it ends:
\* those it queued and the one it threw at
Classified(p) ==
    LET c == classify(p, 1, [updates |-> << >>, inserts |-> << >>,
                             deletes |-> << >>, thrown |-> FALSE])
    IN  Len(c.updates) + Len(c.inserts) + Len(c.deletes) + (IF c.thrown THEN 1 ELSE 0)

\* C27: when a backend call of a bulk invocation has been issued, every
\* entry of the BatchPatch has been classified
C27_ClassifiedBeforeFirstCall ==
    (last.op = "bulk" /\ events # << >>) => Classified(patch) = Len(patch)

\* ---- the IndexMap
\* the addSimpleField calls made for an index of name n, and the last one
RegisteredAs(n) == {j \in DOMAIN registered : registered[j].index.name = n}
LastRegistered(n) == CHOOSE j \in RegisteredAs(n) : \A k \in RegisteredAs(n) : k <= j

\* C25: addSimpleField returns the IndexMap it was called on, and
\* toMongoCriteria is a lookup: for an index registered with field f (the
\* field its name was bound to last) it returns criteria of the one entry
\* f = value, it leaves the IndexMap as it was, and its result is fixed by
\* the registrations and its arguments
C25_RegisterFluentTranslatePure ==
    /\ last.op = "addSimpleField" => last.res = maps
    /\ (last.op = "toMongoCriteria" /\ RegisteredAs(last.index.name) # {}) =>
          /\ last.res = (registered[LastRegistered(last.index.name)].name :> last.value)
          /\ maps = last.maps

\* C25 witness: criteria were asked for an index of a map that knows two
\* names
C25_Witness ==
    /\ last.op = "toMongoCriteria"
    /\ Cardinality(DOMAIN maps) = 2
    /\ ~IsThrown(last.res)

\* C26: the IndexMap is keyed by the name of the index function only: when
\* two different functions of one name were registered, the first with f1
\* and the second with f2, toMongoCriteria gives f2 = value for either
C26_KeyedByNameOnly ==
    \A i, j \in DOMAIN registered :
        (/\ i < j
         /\ registered[i].index # registered[j].index
         /\ registered[i].index.name = registered[j].index.name
         /\ j = LastRegistered(registered[j].index.name)
         /\ last.op = "toMongoCriteria"
         /\ last.index \in {registered[i].index, registered[j].index})
            => last.res = (registered[j].name :> last.value)

\* C26 witness: criteria were asked for the function registered first,
\* after another function of its name was registered with another field
C26_Witness ==
    /\ Len(registered) = 2
    /\ registered[1].index # registered[2].index
    /\ registered[1].index.name = registered[2].index.name
    /\ registered[1].name # registered[2].name
    /\ last.op = "toMongoCriteria" /\ last.index = registered[1].index
    /\ last.res = (registered[2].name :> last.value)

\* ---- bulk: the delete phase
\* the keys the BatchPatch maps to DEL
DoomedKeys == {patch[i][1] : i \in {j \in DOMAIN patch : patch[j][2].op = "DEL"}}
\* the collection when the call of position j of the log was issued
CollAt(j) == Completed(SubSeq(events, 1, j - 1), 1, before)

C29_EmptyPatchResolves ==
    (last.op = "bulk" /\ patch = << >>) =>
        /\ events = << >> /\ inflight = None
        /\ coll = before
        /\ \/ last.res = Pending /\ chain = "updates" /\ ENABLED bulkResolve
           \/ last.res = Ok(TRUE) /\ chain = "fulfilled"

\* C29 witness: a bulk with an empty BatchPatch has resolved on a
\* collection that holds documents
C29_Witness ==
    /\ last.op = "bulk" /\ patch = << >>
    /\ last.res = Ok(TRUE)
    /\ coll # {}

====
